---- MODULE Spec2Model ----
(***************************************************************************)
(* Model of src/comm/blockchain.js: the Blockchain facade (constructor,    *)
(* gettype, the seven delegating operations) and the transaction           *)
(* statistics (getDefaultTxStats, mergeDefaultTxStats).                    *)
(*                                                                         *)
(* JavaScript numbers are IEEE-754 binary64 values.  The statistics divide *)
(* integer millisecond values by 1000 and add the quotients, so the model  *)
(* keeps the rounding of both operations: a finite non-negative number is  *)
(* held as its exact binary expansion inside a fixed window of bit         *)
(* positions, and every operation rounds its exact result to Precision     *)
(* significant bits, ties to even.  NaN is a separate value.               *)
(***************************************************************************)
EXTENDS Integers, Sequences, FiniteSets

(***************************************************************************)
(* Numbers                                                                 *)
(***************************************************************************)

\* Bit i of a number has weight 2^(IntBits - i): positions 1..IntBits are the
\* integer part, positions IntBits+1..Width the fraction.
IntBits == 30
FracBits == 62
\* Significant bits of a JavaScript number (binary64).
Precision == 53

Width == IntBits + FracBits

ZeroBits == [i \in 1..Width |-> 0]

NaN == [nan |-> TRUE, bits |-> ZeroBits]

Num(b) == [nan |-> FALSE, bits |-> b]

\* The bits of the non-negative integer n (n < 2^IntBits).
IntToBits(n) ==
  [i \in 1..Width |-> IF i <= IntBits THEN (n \div (2 ^ (IntBits - i))) % 2 ELSE 0]

\* 2^k mod 1000, by repeated squaring.
RECURSIVE Pow2Mod1000(_)
Pow2Mod1000(k) ==
  IF k < 10 THEN (2 ^ k) % 1000
  ELSE LET h == Pow2Mod1000(k \div 2)
       IN (h * h * (IF k % 2 = 1 THEN 2 ELSE 1)) % 1000

\* The remainder left after k fraction bits of the long division r / 1000,
\* for 0 <= r < 1000.
FracRem(r, k) == (r * Pow2Mod1000(k)) % 1000

\* Fraction bit j (j >= 1) of r / 1000.
FracDigit(r, j) == (2 * FracRem(r, j - 1)) \div 1000

\* bits with 1 added at position pos (carry runs towards position 1).
Increment(bits, pos) ==
  LET zeros == {j \in 1..pos : bits[j] = 0}
      top == CHOOSE j \in zeros : \A k \in zeros : k <= j
  IN [i \in 1..Width |->
        IF i = top THEN 1 ELSE IF i > top /\ i <= pos THEN 0 ELSE bits[i]]

\* Round the exact expansion ext (Len(ext) >= Width; sticky: non-zero bits
\* follow ext) to Precision significant bits, ties to even.
RoundBits(ext, sticky) ==
  LET ones == {i \in 1..Len(ext) : ext[i] = 1}
  IN IF ones = {} THEN ZeroBits
     ELSE
       LET lead == CHOOSE i \in ones : \A j \in ones : i <= j
           last == lead + Precision - 1
           kept == [i \in 1..Width |-> IF i <= last THEN ext[i] ELSE 0]
       IN IF last >= Len(ext) THEN kept
          ELSE
            LET guard == ext[last + 1]
                rest == sticky \/ \E i \in (last + 2)..Len(ext) : ext[i] = 1
            IN IF guard = 1 /\ (rest \/ ext[last] = 1)
               THEN Increment(kept, last)
               ELSE kept

\* n / 1000 for an integer n >= 0, as JavaScript computes it.
DivBy1000(n) ==
  LET q == n \div 1000
      r == n % 1000
      ext == [i \in 1..(Width + 2) |->
                IF i <= IntBits THEN IntToBits(q)[i]
                ELSE FracDigit(r, i - IntBits)]
  IN Num(RoundBits(ext, FracRem(r, FracBits + 2) # 0))

\* The exact sum of positions lo..hi of two bit vectors with carry c into
\* position hi: the carry out of position lo, then the sum bits.
RECURSIVE SumRange(_, _, _, _, _)
SumRange(a, b, lo, hi, c) ==
  IF lo = hi
  THEN << (a[lo] + b[lo] + c) \div 2, (a[lo] + b[lo] + c) % 2 >>
  ELSE LET mid == (lo + hi) \div 2
           right == SumRange(a, b, mid + 1, hi, c)
       IN IF right[1] = 1
          THEN SumRange(a, b, lo, mid, 1) \o Tail(right)
          ELSE SumRange(a, b, lo, mid, 0) \o Tail(right)

\* x + y
Plus(x, y) ==
  IF x.nan \/ y.nan THEN NaN
  ELSE Num(RoundBits(Tail(SumRange(x.bits, y.bits, 1, Width, 0)), FALSE))

\* x < y (false when either is NaN)
Less(x, y) ==
  /\ ~x.nan
  /\ ~y.nan
  /\ \E i \in 1..Width :
       /\ x.bits[i] < y.bits[i]
       /\ \A j \in 1..(i - 1) : x.bits[j] = y.bits[j]

\* The JavaScript number with the integer value n.
FromInt(n) == Num(IntToBits(n))

(***************************************************************************)
(* Transaction records and statistics                                      *)
(***************************************************************************)

\* Bounds of the model.
MaxStats == 2
MaxTx == 3
MaxOut == 1
MaxMerges == 2

\* A local variable that is still undefined, or holds the integer v.
Undefined == [def |-> FALSE, v |-> 0]

Defined(n) == [def |-> TRUE, v |-> n]

\* A transaction outcome as invokeSmartContract resolves it; time_create and
\* time_valid are integer milliseconds, time_valid is read only on success.
Tx(status, create, valid) ==
  [status |-> status, time_create |-> create, time_valid |-> valid]

Records ==
  { Tx("success", 0, 100),
    Tx("success", 1000, 1500),
    Tx("success", 0, 100001000),
    Tx("failed", 2000, 0),
    Tx("created", 500, 0) }

RECURSIVE SeqsOfLen(_, _)
SeqsOfLen(S, n) ==
  IF n = 0 THEN { << >> }
  ELSE { Append(s, x) : s \in SeqsOfLen(S, n - 1), x \in S }

SeqsUpTo(S, n) == UNION { SeqsOfLen(S, k) : k \in 0..n }

\* Math.round(n / d) for integers n >= 0, d > 0: the nearest integer, halves up.
MathRound(n, d) == (2 * n + d) \div (2 * d)

\* Number.prototype.toString of a non-negative integer: its decimal digits.
RECURSIVE ToString(_)
ToString(n) == IF n < 10 THEN << n >> ELSE Append(ToString(n \div 10), n % 10)

\* undefined / 1000 is NaN.
ToSeconds(u) == IF u.def THEN DivBy1000(u.v) ELSE NaN

\* The locals of getDefaultTxStats before the loop.
StatsLocals ==
  [ succ |-> 0, fail |-> 0, delay |-> FromInt(0),
    minValid |-> Undefined, maxValid |-> Undefined,
    minCreate |-> Undefined, maxCreate |-> Undefined,
    minDelay |-> FromInt(100000), maxDelay |-> FromInt(0),
    throughput |-> << >> ]

\* The running minimum (maximum) of an integer local.
RunMin(u, n) == IF ~u.def THEN Defined(n) ELSE IF n < u.v THEN Defined(n) ELSE u

RunMax(u, n) == IF ~u.def THEN Defined(n) ELSE IF n > u.v THEN Defined(n) ELSE u

\* throughput[idx] incremented, or set to 1 when absent.
CountKey(t, idx) ==
  [k \in DOMAIN t \cup {idx} |->
     IF k = idx THEN (IF idx \in DOMAIN t THEN t[idx] + 1 ELSE 1) ELSE t[k]]

\* The throughput key of a committed transaction.
ThroughputKey(valid) == ToString(MathRound(valid, 1))

\* StatsStep with fail++ under "else if(stat.status === 'failed')": a record
\* that is neither committed nor failed is counted nowhere.
StatsStepFailedOnly(loc, stat) ==
  LET create == stat.time_create
      withCreate == [loc EXCEPT !.minCreate = RunMin(loc.minCreate, create),
                                !.maxCreate = RunMax(loc.maxCreate, create)]
  IN IF stat.status = "success"
     THEN LET valid == stat.time_valid
              d == DivBy1000(valid - create)
          IN [withCreate EXCEPT
                !.succ = @ + 1,
                !.minValid = RunMin(@, valid),
                !.maxValid = RunMax(@, valid),
                !.delay = Plus(@, d),
                !.minDelay = IF Less(d, @) THEN d ELSE @,
                !.maxDelay = IF Less(@, d) THEN d ELSE @,
                !.throughput = CountKey(@, ThroughputKey(valid))]
     ELSE IF stat.status = "failed"
     THEN [withCreate EXCEPT !.fail = @ + 1]
     ELSE withCreate

\* One iteration of the loop of getDefaultTxStats.
StatsStep(loc, stat) ==
  LET create == stat.time_create
      withCreate == [loc EXCEPT !.minCreate = RunMin(loc.minCreate, create),
                                !.maxCreate = RunMax(loc.maxCreate, create)]
  IN IF stat.status = "success"
     THEN LET valid == stat.time_valid
              d == DivBy1000(valid - create)
          IN [withCreate EXCEPT
                !.succ = @ + 1,
                !.minValid = RunMin(@, valid),
                !.maxValid = RunMax(@, valid),
                !.delay = Plus(@, d),
                !.minDelay = IF Less(d, @) THEN d ELSE @,
                !.maxDelay = IF Less(@, d) THEN d ELSE @,
                !.throughput = CountKey(@, ThroughputKey(valid))]
     ELSE [withCreate EXCEPT !.fail = @ + 1]

RECURSIVE StatsLoop(_, _, _)
StatsLoop(loc, results, i) ==
  IF i > Len(results) THEN loc
  ELSE StatsLoop(StatsStep(loc, results[i]), results, i + 1)

\* getDefaultTxStats(results): the txStatistics object it returns.
getDefaultTxStats(results) ==
  LET loc == StatsLoop(StatsLocals, results, 1)
  IN [ succ |-> loc.succ,
       fail |-> loc.fail,
       create |-> [min |-> ToSeconds(loc.minCreate), max |-> ToSeconds(loc.maxCreate)],
       valid |-> [min |-> ToSeconds(loc.minValid), max |-> ToSeconds(loc.maxValid)],
       delay |-> [min |-> loc.minDelay, max |-> loc.maxDelay, sum |-> loc.delay],
       throughput |-> loc.throughput,
       out |-> << >> ]

\* MergeThroughput with "=" for "+=": a bucket both objects have keeps only
\* the count of v.
MergeThroughputOverwrite(rt, vt) ==
  [k \in DOMAIN rt \cup DOMAIN vt |-> IF k \notin DOMAIN vt THEN rt[k] ELSE vt[k]]

\* The throughput of r after the for-in loop over v.throughput.
MergeThroughput(rt, vt) ==
  [k \in DOMAIN rt \cup DOMAIN vt |->
     IF k \notin DOMAIN vt THEN rt[k]
     ELSE IF k \notin DOMAIN rt THEN vt[k]
     ELSE rt[k] + vt[k]]

\* MergeStep with unshift for push: the out of v goes before the out of r.
MergeStepPrepend(r, v) ==
  [ succ |-> r.succ + v.succ,
    fail |-> r.fail + v.fail,
    out |-> v.out \o r.out,
    create |-> [min |-> IF Less(v.create.min, r.create.min) THEN v.create.min
                        ELSE r.create.min,
                max |-> IF Less(r.create.max, v.create.max) THEN v.create.max
                        ELSE r.create.max],
    valid |-> [min |-> IF Less(v.valid.min, r.valid.min) THEN v.valid.min
                       ELSE r.valid.min,
               max |-> IF Less(r.valid.max, v.valid.max) THEN v.valid.max
                       ELSE r.valid.max],
    delay |-> [min |-> IF Less(v.delay.min, r.delay.min) THEN v.delay.min
                       ELSE r.delay.min,
               max |-> IF Less(r.delay.max, v.delay.max) THEN v.delay.max
                       ELSE r.delay.max,
               sum |-> Plus(r.delay.sum, v.delay.sum)],
    throughput |-> MergeThroughput(r.throughput, v.throughput) ]

\* One iteration of the loop of mergeDefaultTxStats: r after v is merged in.
MergeStep(r, v) ==
  [ succ |-> r.succ + v.succ,
    fail |-> r.fail + v.fail,
    out |-> r.out \o v.out,
    create |-> [min |-> IF Less(v.create.min, r.create.min) THEN v.create.min
                        ELSE r.create.min,
                max |-> IF Less(r.create.max, v.create.max) THEN v.create.max
                        ELSE r.create.max],
    valid |-> [min |-> IF Less(v.valid.min, r.valid.min) THEN v.valid.min
                       ELSE r.valid.min,
               max |-> IF Less(r.valid.max, v.valid.max) THEN v.valid.max
                       ELSE r.valid.max],
    delay |-> [min |-> IF Less(v.delay.min, r.delay.min) THEN v.delay.min
                       ELSE r.delay.min,
               max |-> IF Less(r.delay.max, v.delay.max) THEN v.delay.max
                       ELSE r.delay.max,
               sum |-> Plus(r.delay.sum, v.delay.sum)],
    throughput |-> MergeThroughput(r.throughput, v.throughput) ]

\* The objects h after iterations i.. of the loop over the array l of
\* references into h; r = results[0] is mutated in place.
RECURSIVE MergeLoop(_, _, _)
MergeLoop(h, l, i) ==
  IF i > Len(l) THEN h
  ELSE MergeLoop([h EXCEPT ![l[1]] = MergeStep(h[l[1]], h[l[i]])], l, i + 1)

\* mergeDefaultTxStats(results): the objects after the call.
mergeDefaultTxStats(h, l) == IF Len(l) = 0 THEN h ELSE MergeLoop(h, l, 2)

(***************************************************************************)
(* The statistics objects of a benchmark round                             *)
(***************************************************************************)

VARIABLES
  heap,     \* the txStatistics objects created so far, by reference (index)
  inputs,   \* inputs[i]: the results array heap[i] was computed from
  call,     \* the last call: its operation and arguments
  nmerge    \* number of mergeDefaultTxStats calls made

statsVars == << heap, inputs, call, nmerge >>

VARIABLES
  config,     \* the keys of the configuration the facade was constructed from
  phase,      \* "new", "constructed", or "failed" (the constructor threw)
  bcType,     \* this.bcType
  bcObj,      \* this.bcObj: the backend class instantiated, or "undefined"
  created,    \* the backend classes instantiated by the constructor
  contexts,   \* contexts[c]: "acquired" or "released", as the backend holds it
  completed,  \* completed[c]: releaseContext calls on c that resolved
  ret,        \* the last facade call and how it ended
  backend     \* the calls the last facade call made on the backend

facadeVars ==
  << config, phase, bcType, bcObj, created, contexts, completed, ret, backend >>

vars == << statsVars, facadeVars >>

NoCall == [op |-> "none", list |-> << >>, target |-> 0]

\* Number of records handed to getDefaultTxStats so far.
RECURSIVE TotalLen(_, _)
TotalLen(ins, i) == IF i = 0 THEN 0 ELSE Len(ins[i]) + TotalLen(ins, i - 1)

\* The arrays of at most MaxStats references to existing objects.
RefLists == SeqsUpTo(1..Len(heap), MaxStats)

StatsInit ==
  /\ heap = << >>
  /\ inputs = << >>
  /\ call = NoCall
  /\ nmerge = 0

\* getDefaultTxStats tabulated over the results arrays of the model.
StatsTable == [results \in SeqsUpTo(Records, MaxTx) |-> getDefaultTxStats(results)]

\* A worker's results are aggregated: stats = getDefaultTxStats(results).
GetDefaultTxStats ==
  /\ Len(heap) < MaxStats
  /\ \E results \in SeqsUpTo(Records, MaxTx - TotalLen(inputs, Len(inputs))) :
       /\ heap' = Append(heap, StatsTable[results])
       /\ inputs' = Append(inputs, results)
  /\ call' = [op |-> "getDefaultTxStats", list |-> << >>, target |-> Len(heap) + 1]
  /\ UNCHANGED << nmerge, facadeVars >>

\* The caller adds its user defined output data to stats.out.
PushOut ==
  /\ nmerge = 0
  /\ \E i \in 1..Len(heap) :
       /\ Len(heap[i].out) < MaxOut
       /\ heap' = [heap EXCEPT ![i].out = Append(@, i)]
       /\ call' = [op |-> "push", list |-> << >>, target |-> i]
  /\ UNCHANGED << inputs, nmerge, facadeVars >>

\* Blockchain.mergeDefaultTxStats(results) on an array of existing objects.
MergeDefaultTxStats ==
  /\ nmerge < MaxMerges
  /\ \E l \in RefLists :
       /\ heap' = mergeDefaultTxStats(heap, l)
       /\ call' = [op |-> "mergeDefaultTxStats", list |-> l, target |-> 0]
  /\ nmerge' = nmerge + 1
  /\ UNCHANGED << inputs, facadeVars >>

StatsNext == GetDefaultTxStats \/ PushOut \/ MergeDefaultTxStats

(***************************************************************************)
(* The facade                                                              *)
(***************************************************************************)

\* Bound of the model: contexts obtained from one facade.
MaxContexts == 2

\* Top-level keys a configuration file may have.
ConfigKeys == {"fabric", "sawtooth", "iroha", "other"}

\* JavaScript values passed as the timeout argument.
JsUndefined == [type |-> "undefined", kind |-> "none", v |-> 0]

JsString == [type |-> "string", kind |-> "none", v |-> 60]

JsNumber(n) == [type |-> "number", kind |-> "finite", v |-> n]

JsNaN == [type |-> "number", kind |-> "nan", v |-> 0]

JsInfinity == [type |-> "number", kind |-> "inf", v |-> 1]

Timeouts ==
  {JsUndefined, JsString, JsNaN, JsInfinity,
   JsNumber(-1), JsNumber(0), JsNumber(30), JsNumber(120)}

\* timeout < 0 for a timeout of type number.
LessThanZero(t) == t.kind = "finite" /\ t.v < 0

\* The parameters of a call; a field an operation does not take is left at
\* its value in NoParams.
NoParams ==
  [context |-> 0, contractID |-> "", contractVer |-> "", args |-> "",
   timeout |-> JsUndefined, number |-> 0, name |-> "", key |-> ""]

BackendCall(method, params) == [method |-> method, params |-> params]

\* Constructor with the sawtooth test before the fabric test.
ConstructorSawtoothFirst(keys) ==
  IF "sawtooth" \in keys
  THEN [bcType |-> "sawtooth", bcObj |-> "sawtooth", created |-> << "sawtooth" >>,
        threw |-> FALSE]
  ELSE IF "fabric" \in keys
  THEN [bcType |-> "fabric", bcObj |-> "fabric", created |-> << "fabric" >>,
        threw |-> FALSE]
  ELSE IF "iroha" \in keys
  THEN [bcType |-> "iroha", bcObj |-> "iroha", created |-> << "iroha" >>,
        threw |-> FALSE]
  ELSE [bcType |-> "unknown", bcObj |-> "undefined", created |-> << >>,
        threw |-> TRUE]

\* new Blockchain(configPath) on a configuration with the top-level keys keys: the
\* fields of the object, the backends instantiated, whether it threw.
Constructor(keys) ==
  IF "fabric" \in keys
  THEN [bcType |-> "fabric", bcObj |-> "fabric", created |-> << "fabric" >>,
        threw |-> FALSE]
  ELSE IF "sawtooth" \in keys
  THEN [bcType |-> "sawtooth", bcObj |-> "sawtooth", created |-> << "sawtooth" >>,
        threw |-> FALSE]
  ELSE IF "iroha" \in keys
  THEN [bcType |-> "iroha", bcObj |-> "iroha", created |-> << "iroha" >>,
        threw |-> FALSE]
  ELSE [bcType |-> "unknown", bcObj |-> "undefined", created |-> << >>,
        threw |-> TRUE]

\* gettype()
gettype(type) == type

\* invokeSmartContract(context, contractID, contractVer, args, timeout): the
\* call it makes on the backend.
invokeSmartContract(context, contractID, contractVer, args, timeout) ==
  IF timeout.type # "number" \/ LessThanZero(timeout)
  THEN BackendCall("invokeSmartContract",
         [NoParams EXCEPT !.context = context, !.contractID = contractID,
                          !.contractVer = contractVer, !.args = args,
                          !.timeout = JsNumber(120)])
  ELSE BackendCall("invokeSmartContract",
         [NoParams EXCEPT !.context = context, !.contractID = contractID,
                          !.contractVer = contractVer, !.args = args,
                          !.timeout = timeout])

\* The backend's releaseContext on the contexts ctxs: it fails on a context
\* that is already released.
BackendReleaseContext(ctxs, c) ==
  IF ctxs[c] = "acquired"
  THEN [outcome |-> "resolved", ctxs |-> [ctxs EXCEPT ![c] = "released"]]
  ELSE [outcome |-> "rejected", ctxs |-> ctxs]

\* The backend's getContext: a new context, acquired.
BackendGetContext(ctxs) ==
  [outcome |-> "resolved", ctxs |-> Append(ctxs, "acquired")]

\* The backend's invokeSmartContract and queryState: using a released
\* context is an error.
BackendTransaction(ctxs, c) ==
  IF ctxs[c] = "acquired" THEN "resolved" ELSE "rejected"

\* releaseContext with the backend's rejection caught: it always resolves.
releaseContextSwallow(ctxs, c) ==
  [outcome |-> "resolved", ctxs |-> BackendReleaseContext(ctxs, c).ctxs]

\* releaseContext(context): the promise of the backend's releaseContext.
releaseContext(ctxs, c) == BackendReleaseContext(ctxs, c)

\* getContext(name, args): the promise of the backend's getContext.
getContext(ctxs) == BackendGetContext(ctxs)

Ret(op, outcome, value, params, prior) ==
  [op |-> op, outcome |-> outcome, value |-> value, params |-> params,
   prior |-> prior]

FacadeInit ==
  /\ config = {}
  /\ phase = "new"
  /\ bcType = "undefined"
  /\ bcObj = "undefined"
  /\ created = << >>
  /\ contexts = << >>
  /\ completed = << >>
  /\ ret = Ret("none", "none", "", NoParams, "")
  /\ backend = << >>

\* new Blockchain(configPath)
Construct ==
  /\ phase = "new"
  /\ \E cfg \in SUBSET ConfigKeys :
       LET obj == Constructor(cfg)
       IN /\ config' = cfg
          /\ bcType' = obj.bcType
          /\ bcObj' = obj.bcObj
          /\ created' = obj.created
          /\ phase' = IF obj.threw THEN "failed" ELSE "constructed"
          /\ ret' = Ret("constructor", IF obj.threw THEN "threw" ELSE "returned",
                        "", NoParams, "")
  /\ backend' = << >>
  /\ UNCHANGED << contexts, completed, statsVars >>

GetType ==
  /\ phase = "constructed"
  /\ ret' = Ret("gettype", "returned", gettype(bcType), NoParams, "")
  /\ backend' = << >>
  /\ UNCHANGED << config, phase, bcType, bcObj, created, contexts, completed,
               statsVars >>

\* init(), createClients(number), installSmartContract(): the backend's call.
Delegate ==
  /\ phase = "constructed"
  /\ \E c \in { BackendCall("init", NoParams),
                 BackendCall("installSmartContract", NoParams) }
              \cup { BackendCall("createClients", [NoParams EXCEPT !.number = n]) :
                       n \in 0..2 } :
       /\ backend' = << c >>
       /\ ret' = Ret(c.method, "resolved", "", c.params, "")
  /\ UNCHANGED << config, phase, bcType, bcObj, created, contexts, completed,
               statsVars >>

GetContext ==
  /\ phase = "constructed"
  /\ Len(contexts) < MaxContexts
  /\ \E name \in {"open", "query"} :
       LET p == [NoParams EXCEPT !.name = name]
           r == getContext(contexts)
       IN /\ backend' = << BackendCall("getContext", p) >>
          /\ contexts' = r.ctxs
          /\ completed' = Append(completed, 0)
          /\ ret' = Ret("getContext", r.outcome, "", p, "")
  /\ UNCHANGED << config, phase, bcType, bcObj, created, statsVars >>

ReleaseContext ==
  /\ phase = "constructed"
  /\ \E c \in 1..Len(contexts) :
       LET p == [NoParams EXCEPT !.context = c]
           r == releaseContext(contexts, c)
       IN /\ backend' = << BackendCall("releaseContext", p) >>
          /\ contexts' = r.ctxs
          /\ completed' = [completed EXCEPT ![c] =
                             IF r.outcome = "resolved" THEN @ + 1 ELSE @]
          /\ ret' = Ret("releaseContext", r.outcome, "", p, contexts[c])
  /\ UNCHANGED << config, phase, bcType, bcObj, created, statsVars >>

InvokeSmartContract ==
  /\ phase = "constructed"
  /\ \E c \in 1..Len(contexts), a \in {"a1", "a2"}, t \in Timeouts :
       LET made == invokeSmartContract(c, "simple", "v0", a, t)
       IN /\ backend' = << made >>
          /\ ret' = Ret("invokeSmartContract", BackendTransaction(contexts, c), "",
                        [NoParams EXCEPT !.context = c, !.contractID = "simple",
                                         !.contractVer = "v0", !.args = a,
                                         !.timeout = t],
                        contexts[c])
  /\ UNCHANGED << config, phase, bcType, bcObj, created, contexts, completed,
               statsVars >>

QueryState ==
  /\ phase = "constructed"
  /\ \E c \in 1..Len(contexts) :
       LET p == [NoParams EXCEPT !.context = c, !.contractID = "simple",
                                !.contractVer = "v0", !.key = "k1"]
       IN /\ backend' = << BackendCall("queryState", p) >>
          /\ ret' = Ret("queryState", BackendTransaction(contexts, c), "", p,
                        contexts[c])
  /\ UNCHANGED << config, phase, bcType, bcObj, created, contexts, completed,
               statsVars >>

FacadeNext ==
  \/ Construct
  \/ GetType
  \/ Delegate
  \/ GetContext
  \/ ReleaseContext
  \/ InvokeSmartContract
  \/ QueryState

Init == StatsInit /\ FacadeInit

\* The statistics of a benchmark round.
Spec == Init /\ [][StatsNext]_vars

\* The workers' aggregation alone: getDefaultTxStats over every results array.
SpecCompute == Init /\ [][GetDefaultTxStats]_vars

\* The life of one facade.
SpecFacade == Init /\ [][FacadeNext]_vars

(***************************************************************************)
(* Properties                                                              *)
(***************************************************************************)

\* The fields of a txStatistics object other than out.
Numbers(s) ==
  [succ |-> s.succ, fail |-> s.fail, create |-> s.create, valid |-> s.valid,
   delay |-> s.delay, throughput |-> s.throughput]

Distinct(l) == \A i, j \in 1..Len(l) : i # j => l[i] # l[j]

\* The step is a call of mergeDefaultTxStats (its array is call'.list).
MergeCalled == call'.op = "mergeDefaultTxStats" /\ nmerge' = nmerge + 1

\* Every object l refers to is as getDefaultTxStats returned it.
AsComputed(l) ==
  \A i \in 1..Len(l) : Numbers(heap[l[i]]) = Numbers(getDefaultTxStats(inputs[l[i]]))

\* The orders of the references of l, for l without repetition.
Permutations(l) ==
  { p \in SeqsOfLen({ l[i] : i \in 1..Len(l) }, Len(l)) : Distinct(p) }

\* The results arrays of the objects of l, one after the other.
RECURSIVE ConcatInputs(_, _)
ConcatInputs(l, i) ==
  IF i = 0 THEN << >> ELSE ConcatInputs(l, i - 1) \o inputs[l[i]]

\* The out arrays of the objects of l, one after the other.
RECURSIVE ConcatOut(_, _)
ConcatOut(l, i) ==
  IF i = 0 THEN << >> ELSE ConcatOut(l, i - 1) \o heap[l[i]].out

\* The positions of the committed records of results.
Committed(results) == { i \in 1..Len(results) : results[i].status = "success" }

\* The sum of the counts of a throughput map over the keys S.
RECURSIVE SumCounts(_, _)
SumCounts(t, S) ==
  IF S = {} THEN 0
  ELSE LET k == CHOOSE x \in S : TRUE IN t[k] + SumCounts(t, S \ {k})

\* The delays of the committed records results[1..i], added in order.
RECURSIVE DelaySum(_, _)
DelaySum(results, i) ==
  IF i = 0 THEN FromInt(0)
  ELSE IF results[i].status = "success"
       THEN Plus(DelaySum(results, i - 1),
                 DivBy1000(results[i].time_valid - results[i].time_create))
       ELSE DelaySum(results, i - 1)

\* C1: mergeDefaultTxStats on any order of a non-empty array of objects, each
\* as getDefaultTxStats returned it for a non-empty results array (with or
\* without committed records), leaves the first object with the same succ,
\* fail, create, valid, delay and throughput.
C1_MergeOrderIndependent ==
  [][ (MergeCalled /\ Len(call'.list) > 0 /\ Distinct(call'.list)
         /\ AsComputed(call'.list)
         /\ \A i \in 1..Len(call'.list) : Len(inputs[call'.list[i]]) > 0)
      => \A p \in Permutations(call'.list) :
           Numbers(mergeDefaultTxStats(heap, p)[p[1]])
             = Numbers(heap'[call'.list[1]]) ]_vars

\* C2: the objects computed from the groups of a partition of a record
\* sequence, merged, have the succ, fail, delay.sum and throughput that
\* getDefaultTxStats returns for the whole sequence.
C2_MergeOfGroupsIsWhole ==
  [][ (MergeCalled /\ Len(call'.list) > 0 /\ Distinct(call'.list)
         /\ AsComputed(call'.list))
      => LET l == call'.list
             whole == getDefaultTxStats(ConcatInputs(l, Len(l)))
             acc == heap'[l[1]]
         IN /\ acc.succ = whole.succ
            /\ acc.fail = whole.fail
            /\ acc.delay.sum = whole.delay.sum
            /\ acc.throughput = whole.throughput ]_vars

\* C3: in the object getDefaultTxStats returns, every committed record is
\* counted in the bucket whose key is round(time_valid / 1000), in seconds.
C3_ThroughputKeyIsSeconds ==
  call.op = "getDefaultTxStats" =>
    LET s == heap[call.target]
        results == inputs[call.target]
        key(i) == ToString(MathRound(results[i].time_valid, 1000))
    IN /\ DOMAIN s.throughput = { key(i) : i \in Committed(results) }
       /\ \A i \in Committed(results) :
            s.throughput[key(i)]
              = Cardinality({ j \in Committed(results) : key(j) = key(i) })

\* C4: with a committed record in results, delay.min, delay.max and delay.sum
\* are the minimum, the maximum and the sum of (time_valid - time_create) / 1000
\* over the committed records, whatever the delays are.
C4_DelayOverCommitted ==
  (call.op = "getDefaultTxStats" /\ Committed(inputs[call.target]) # {}) =>
    LET s == heap[call.target]
        results == inputs[call.target]
        delays == { DivBy1000(results[i].time_valid - results[i].time_create) :
                      i \in Committed(results) }
    IN /\ s.delay.min \in delays
       /\ \A d \in delays : ~Less(d, s.delay.min)
       /\ s.delay.max \in delays
       /\ \A d \in delays : ~Less(s.delay.max, d)
       /\ s.delay.sum = DelaySum(results, Len(results))

\* C5: for a non-empty results array, succ is the number of records with
\* status success, fail the number of all the others, and succ + fail is the
\* length of the array.
C5_SuccAndFailCountAll ==
  (call.op = "getDefaultTxStats" /\ Len(inputs[call.target]) > 0) =>
    LET s == heap[call.target]
        results == inputs[call.target]
    IN /\ s.succ = Cardinality(Committed(results))
       /\ s.fail = Cardinality((1..Len(results)) \ Committed(results))
       /\ s.succ + s.fail = Len(results)

\* C5 happens: an array with a committed, a failed and a created record has
\* been aggregated.
C5_Witness ==
  /\ call.op = "getDefaultTxStats"
  /\ \A st \in {"success", "failed", "created"} :
       \E i \in 1..Len(inputs[call.target]) : inputs[call.target][i].status = st

\* C6: in every object, computed or merged into, the counts of the
\* throughput buckets sum to succ.
C6_ThroughputSumsToSucc ==
  \A i \in 1..Len(heap) :
    SumCounts(heap[i].throughput, DOMAIN heap[i].throughput) = heap[i].succ

\* C6 happens: after two merges an object holds several buckets, one of them
\* counted from more than one object.
C6_Witness ==
  /\ call.op = "mergeDefaultTxStats"
  /\ nmerge >= 2
  /\ \E i \in 1..Len(heap) :
       /\ Cardinality(DOMAIN heap[i].throughput) >= 2
       /\ \E k \in DOMAIN heap[i].throughput : heap[i].throughput[k] >= 2

\* C10: mergeDefaultTxStats on an array of pairwise distinct objects changes
\* only the first: every other object is as before, the out of the first is
\* the out arrays of all the objects in the order of the array; on an empty
\* array nothing changes.
C10_MergeChangesOnlyFirst ==
  [][ MergeCalled =>
        LET l == call'.list
        IN /\ Len(heap') = Len(heap)
           /\ Len(l) = 0 => heap' = heap
           /\ (Len(l) > 0 /\ Distinct(l)) =>
                /\ \A j \in 1..Len(heap) : j # l[1] => heap'[j] = heap[j]
                /\ heap'[l[1]].out = ConcatOut(l, Len(l)) ]_vars

\* C10 happens: two distinct objects, each with output data and the second
\* with committed records, have been merged.
C10_Witness ==
  /\ call.op = "mergeDefaultTxStats"
  /\ Len(call.list) = 2
  /\ Distinct(call.list)
  /\ heap[call.list[2]].out # << >>
  /\ heap[call.list[2]].succ > 0
  /\ Len(heap[call.list[1]].out) = 2

\* The backend variants in the order the constructor probes them.
Priority == << "fabric", "sawtooth", "iroha" >>

\* The first variant of Priority among the keys.
FirstMarker(keys) ==
  Priority[CHOOSE i \in 1..Len(Priority) :
             /\ Priority[i] \in keys
             /\ \A j \in 1..(i - 1) : Priority[j] \notin keys]

HasMarker(keys) == \E i \in 1..Len(Priority) : Priority[i] \in keys

\* C7: invokeSmartContract calls the backend once, with the other four
\* arguments as given, and with timeout 120 when the timeout is absent, not a
\* number, NaN or negative, and with the given timeout otherwise.
C7_TimeoutDefaultsTo120 ==
  ret.op = "invokeSmartContract" =>
    LET t == ret.params.timeout
        defaulted == \/ t.type # "number"
                     \/ t.kind = "nan"
                     \/ (t.kind = "finite" /\ t.v < 0)
    IN /\ Len(backend) = 1
       /\ backend[1].method = "invokeSmartContract"
       /\ backend[1].params =
            [ret.params EXCEPT !.timeout = IF defaulted THEN JsNumber(120) ELSE t]

\* C8: construction from a configuration without a marker key throws and
\* instantiates no backend; with marker keys it instantiates one backend, the
\* first of fabric, sawtooth, iroha present, and gettype() returns its name
\* whatever operations the facade has performed.
C8_BackendSelectedOnce ==
  /\ phase = "failed" <=> (phase # "new" /\ ~HasMarker(config))
  /\ phase = "failed" => (created = << >> /\ bcObj = "undefined")
  /\ phase = "constructed" =>
       /\ created = << FirstMarker(config) >>
       /\ bcObj = FirstMarker(config)
       /\ bcType = FirstMarker(config)
  /\ ret.op = "gettype" => ret.value = FirstMarker(config)

\* C8 happens: a facade built from a configuration with several marker keys,
\* fabric not among them, has handed out a context and answers gettype().
C8_Witness ==
  /\ phase = "constructed"
  /\ config = {"sawtooth", "iroha", "other"}
  /\ Len(contexts) > 0
  /\ ret.op = "gettype"
  /\ ret.value = "sawtooth"

====
